---- MODULE Spec2Model ----
(***************************************************************************)
(* Document ingestion pipeline of the RAG MCP server: RagService (LibSQL), *)
(* PgVectorRagService, QdrantRagService and DuplicateCheckService.         *)
(* Scores and confidences are hundredths (0.95 is 95).  The vector store,  *)
(* the embedding provider and the text-generation model are the            *)
(* environment: every call to them either answers or throws.               *)
(***************************************************************************)
EXTENDS Integers, Sequences, FiniteSets, TLC

VARIABLES backend, sim, store, nextDocId, nextVecId,
          pc, req, docId, todel, res, again, calls, answer, writes,
          existingResults, scan, listing, lastListing, swallowed, overlap,
          embeddingConfig, embedded

vars == <<backend, sim, store, nextDocId, nextVecId,
          pc, req, docId, todel, res, again, calls, answer, writes,
          existingResults, scan, listing, lastListing, swallowed, overlap,
          embeddingConfig, embedded>>

(* The state of the listing calls.                                         *)
listVars == <<scan, listing, lastListing>>

(* The embedding configuration of the service and its last embedding call. *)
embedVars == <<embeddingConfig, embedded>>

(***************************** bounds **************************************)
MaxDocs == 2
MaxListDocs == 3
MaxTicks == 2
MaxVecs == 4
MaxCalls == 3
GoodConfidence == 90
BadConfidence == 150
ShortLen == 40
LongLen == 1200
LowScore == 30
MidScore == 92
HighScore == 97

(************************ program constants ********************************)
ProbeChars == 100
ProbeCharsQdrant == 200
ProbeTopK == 1
ProbeTopKQdrant == 5
ProbeThreshold == 95
ProbeThresholdQdrant == 90
DeleteTopK == 1000
DeleteTopKQdrant == 10000
IdenticalScore == 100
DefaultDupTopK == 10
ListTopK == 10000
DupProbeChars == 1000
FallbackConfidence == 50
DefaultConfidence == 70
SkippedId == -2

Procs == {1, 2}
Backends == {"libsql", "pgvector", "qdrant"}
Contents == {"a", "b", "L"}
NoContent == ""
ForeignId == 0
NoId == -1
ScoreLevels == {LowScore, MidScore, HighScore}

Min(x, y) == IF x <= y THEN x ELSE y

(* Length of a content in characters: "a" and "b" are short notes, "L" is  *)
(* a long document.                                                        *)
ContentLen(c) == IF c = "L" THEN LongLen ELSE ShortLen

(* MDocument.chunk under the chunking options of the call: a short        *)
(* content is one chunk holding the whole text, the long one is split into *)
(* an opening chunk "L0" and a closing chunk "L1".                         *)
ChunkTexts(c) ==
    IF c = NoContent THEN << >>
    ELSE IF c = "L" THEN <<"L0", "L1">>
    ELSE <<c>>

(* content.substring(0, n): the content itself when it is short enough,    *)
(* else a proper prefix, which is a text of its own.                       *)
Substring(c, n) == IF ContentLen(c) <= n THEN c ELSE "Lp"

(* String.prototype.includes on a stored chunk text: the first chunk of    *)
(* the long document contains its prefix.                                  *)
Includes(text, search) ==
    \/ text = search
    \/ text = "L0" /\ search = "Lp"

(* Cosine similarity of the embeddings of two texts under the configured   *)
(* embedding model: 1 for equal texts, `sim` for related texts ("b" is an  *)
(* edited copy of "a"; "Lp" opens "L0"), low for unrelated ones.           *)
Score(t1, t2) ==
    IF t1 = t2 THEN IdenticalScore
    ELSE IF {t1, t2} = {"a", "b"} THEN sim
    ELSE IF {t1, t2} = {"Lp", "L0"} THEN sim
    ELSE LowScore

(****************************** vector store *******************************)
(* vectorStore.query: the k best records of S for the query text; ties are *)
(* broken by the backend.  A zero query vector scores every record alike.  *)
TopKSets(S, k, q) ==
    {T \in SUBSET S :
        /\ Cardinality(T) = Min(k, Cardinality(S))
        /\ \A x \in T : \A y \in S \ T :
              (IF q = NoContent THEN 0 ELSE Score(q, x.text)) >=
              (IF q = NoContent THEN 0 ELSE Score(q, y.text))}

ChunksOf(id) == {r \in store : r.documentId = id}

(* vectorStore.upsert: inserts or overwrites by id.                        *)
Upsert(S, recs) ==
    {r \in S : \A n \in recs : n.id # r.id} \cup recs

(* A deleteVector that removes nothing.                                    *)
DeleteVectorKeeps(S, id) == S

(* vectorStore.deleteVector: removing an absent id is a no-op.             *)
DeleteVector(S, id) == {r \in S : r.id # id}

(* chunkDocument + the metadata written by upsert: ids are                 *)
(* `${document.id}_chunk_${index}` on LibSQL and PgVector; the Qdrant      *)
(* service passes no ids, so the store draws a fresh UUID per vector.      *)
ChunkIdWithoutDocument(b, id, index, fresh) ==
    IF b = "qdrant" THEN <<"uuid", fresh + index, 0>>
    ELSE <<"chunk", 0, index>>

ChunkId(b, id, index, fresh) ==
    IF b = "qdrant" THEN <<"uuid", fresh + index, 0>>
    ELSE <<"chunk", id, index>>

(* metadata.createdAt of a chunk: addDocument stamps the time of the add   *)
(* (documents are numbered in the order they are created, so the number    *)
(* of the document stands for that time); updateDocument writes updatedAt  *)
(* only, so the chunks it stores carry no createdAt.                       *)
NoCreatedAt == 0

ChunkRecords(b, id, c, fresh, createdAt) ==
    {[id |-> ChunkId(b, id, i - 1, fresh), documentId |-> id,
      text |-> ChunkTexts(c)[i], chunkIndex |-> i - 1,
      createdAt |-> createdAt] :
        i \in 1..Len(ChunkTexts(c))}

VecsNeeded(b, c) == IF b = "qdrant" THEN Len(ChunkTexts(c)) ELSE 0

(****************************** listDocuments ******************************)
(* PgVectorRagService defines no listDocuments.                            *)
HasListDocuments(b) == b # "pgvector"

(* chunkContent.length of a stored chunk text: the long document is split  *)
(* into a long opening chunk and a short closing one.                      *)
TextLen(t) ==
    IF t = NoContent THEN 0
    ELSE IF t = "L0" THEN LongLen - ShortLen
    ELSE ShortLen

(* The order in which the backend returns the records of a query whose     *)
(* vector is all zeros (every record scores alike): by document, by        *)
(* document backwards, or by chunk ordinal across documents.               *)
ScanOrders == {"byDocument", "byDocumentDesc", "byChunk"}

ScanKey(o, r) ==
    CASE o = "byDocument" -> r.documentId * MaxVecs + r.chunkIndex
      [] o = "byDocumentDesc" -> 0 - (r.documentId * MaxVecs + r.chunkIndex)
      [] OTHER -> r.chunkIndex * MaxVecs + r.documentId

(* vectorStore.query({queryVector: zeros, topK}) in listDocuments.         *)
ScanResults(S, o, k) ==
    LET n == Min(k, Cardinality(S))
        at(i) == CHOOSE r \in S :
            Cardinality({x \in S : ScanKey(o, x) < ScanKey(o, r)}) = i - 1
    IN [i \in 1..n |-> at(i)]

(* documentMap.has(documentId): the position of the document in the map    *)
(* (a Map iterates in insertion order), 0 when it is not there.            *)
IndexNever(acc, id) == 0

IndexOfDoc(acc, id) ==
    IF \E k \in 1..Len(acc) : acc[k].id = id
    THEN CHOOSE k \in 1..Len(acc) : acc[k].id = id
    ELSE 0

(* The loop of listDocuments over the query results.  LibSQL counts the    *)
(* chunks in the map entry and keeps the longest text; Qdrant counts in a  *)
(* separate map and writes chunkCount and the text into the Document once, *)
(* when the first chunk of the document is seen.  A chunk without          *)
(* createdAt makes the entry's createdAt the time of the listing, now[k]   *)
(* for the k-th entry.                                                     *)
RECURSIVE Aggregate(_, _, _, _)
Aggregate(b, results, now, acc) ==
    IF results = << >> THEN acc
    ELSE LET r == Head(results)
             k == IndexOfDoc(acc, r.documentId)
         IN IF k # 0
            THEN Aggregate(b, Tail(results), now,
                   IF b = "qdrant" THEN acc
                   ELSE [acc EXCEPT
                           ![k].chunks = acc[k].chunks + 1,
                           ![k].content =
                              IF TextLen(r.text) > TextLen(acc[k].content)
                              THEN r.text ELSE acc[k].content])
            ELSE Aggregate(b, Tail(results), now,
                   Append(acc,
                     [id |-> r.documentId, content |-> r.text, chunks |-> 1,
                      createdAt |-> IF r.createdAt # NoCreatedAt
                                    THEN r.createdAt
                                    ELSE now[Len(acc) + 1]]))

(* allDocuments.sort((a, b) => b.createdAt - a.createdAt): Array.sort is   *)
(* stable, so entries of equal createdAt keep their map order.             *)
SortByCreatedAtDesc(docs) ==
    LET before(i) == {j \in 1..Len(docs) :
            \/ docs[j].createdAt > docs[i].createdAt
            \/ docs[j].createdAt = docs[i].createdAt /\ j < i}
    IN [k \in 1..Len(docs) |->
          docs[CHOOSE i \in 1..Len(docs) : Cardinality(before(i)) = k - 1]]

(* A slice that starts one entry late.                                     *)
SliceLate(docs, offset, limit) ==
    SubSeq(docs, offset + 2, Min(offset + limit + 1, Len(docs)))

(* allDocuments.slice(offset, offset + limit).                             *)
Slice(docs, offset, limit) ==
    SubSeq(docs, offset + 1, Min(offset + limit, Len(docs)))

listDocuments(b, results, limit, offset, now) ==
    LET allDocuments == SortByCreatedAtDesc(Aggregate(b, results, now, << >>))
    IN [documents |-> Slice(allDocuments, offset, limit),
        total |-> Len(allDocuments)]

NoListing == [state |-> "none", limit |-> 0, offset |-> 0,
              documents |-> << >>, total |-> 0, error |-> "none"]

(******************************* embeddings ********************************)
(* EmbeddingConfig.provider: the three providers of the type, and a value  *)
(* outside it (EMBEDDING_PROVIDER is read from the environment and cast).  *)
Providers == {"openai", "anthropic", "google", "cohere"}

EmbeddingModels == {"text-embedding-3-small", "text-embedding-004"}

(* EmbeddingConfig.dimensions is optional: 0 stands for undefined.         *)
NoDimensions == 0
ConfiguredDimensions == 768

EmbeddingConfigs ==
    [provider : Providers, model : EmbeddingModels,
     dimensions : {NoDimensions, ConfiguredDimensions}]

DefaultEmbeddingConfig ==
    [provider |-> "openai", model |-> "text-embedding-3-small",
     dimensions |-> NoDimensions]

NotEmbedded ==
    [state |-> "none", call |-> "none", provider |-> "none",
     model |-> "none", dimensions |-> NoDimensions, count |-> 0,
     error |-> "none"]

(* getEmbeddingModel: the model object the embedding call is made with, or *)
(* the RagError code thrown.  RagService and PgVectorRagService answer     *)
(* provider "anthropic" with OpenAI's text-embedding-3-small; the Qdrant   *)
(* service has no such case and passes no dimensions to the provider.      *)
getEmbeddingModel(b, config) ==
    LET use(pr, m, d) == [ok |-> TRUE, provider |-> pr, model |-> m,
                          dimensions |-> d, error |-> "none"]
        throw(code) == [ok |-> FALSE, provider |-> "none", model |-> "none",
                        dimensions |-> NoDimensions, error |-> code]
    IN IF b = "qdrant"
       THEN CASE config.provider = "openai" ->
                   use("openai", config.model, NoDimensions)
              [] config.provider = "google" ->
                   use("google", config.model, NoDimensions)
              [] OTHER -> throw("UNSUPPORTED_PROVIDER")
       ELSE CASE config.provider = "openai" ->
                   use("openai", config.model, config.dimensions)
              [] config.provider = "anthropic" ->
                   use("openai", "text-embedding-3-small", NoDimensions)
              [] config.provider = "google" ->
                   use("google", config.model, config.dimensions)
              [] OTHER -> throw("INVALID_EMBEDDING_PROVIDER")

(* generateEmbeddings / generateQueryEmbedding: getEmbeddingModel, then    *)
(* embedMany / embed over the texts, which answers one vector per text or  *)
(* throws.                                                                 *)
Embed(call, texts) ==
    LET m == getEmbeddingModel(backend, embeddingConfig)
    IN IF ~m.ok
       THEN embedded' = [NotEmbedded EXCEPT !.state = "failed",
                                            !.call = call, !.error = m.error]
       ELSE \/ embedded' = [state |-> "done", call |-> call,
                            provider |-> m.provider, model |-> m.model,
                            dimensions |-> m.dimensions,
                            count |-> Len(texts), error |-> "none"]
            \/ embedded' = [NotEmbedded EXCEPT !.state = "failed",
                                               !.call = call,
                                               !.error = "PROVIDER_ERROR"]

(***************************** requests ***********************************)
Ops == {"addDocument", "updateDocument", "deleteDocument",
        "addDocumentWithDuplicateCheck"}

NoDecision == [present |-> FALSE, action |-> "none",
               targetDocumentId |-> NoId, confidence |-> 0]

NoRequest == [op |-> "none", content |-> NoContent, documentId |-> NoId,
              enabled |-> FALSE, threshold |-> 0, allowAIDecision |-> TRUE]

(* What generateText did: threw, or answered a text that holds no braces,  *)
(* braces that JSON.parse rejects, or a JSON object with these fields      *)
(* (action "missing": no action field; "merge": a word outside the enum).  *)
NoConfidence == -1
(* `calls` is the number of generateText calls made for the request.       *)
NoAnswer == [kind |-> "none", action |-> "missing",
             targetDocumentId |-> NoId, confidence |-> NoConfidence,
             calls |-> 0]

NoResult == [ok |-> FALSE, error |-> "none", cause |-> "none",
             action |-> "none", id |-> NoId, content |-> NoContent,
             skipped |-> FALSE, isDuplicate |-> FALSE, similar |-> << >>,
             decision |-> NoDecision]

(* A call that repeats the caller's previous, successful call remembers    *)
(* the document id that call returned.                                     *)
NotAgain == [is |-> FALSE, id |-> NoId]

(* The RagError code the caller of the outermost operation sees.           *)
ErrorCode(op) ==
    CASE op = "addDocument" -> "DOCUMENT_ADD_ERROR"
      [] op = "updateDocument" -> "DOCUMENT_UPDATE_ERROR"
      [] op = "deleteDocument" -> "DOCUMENT_DELETE_ERROR"
      [] OTHER -> "DOCUMENT_ADD_WITH_DUPLICATE_CHECK_ERROR"

Init ==
    /\ backend \in Backends
    /\ sim \in ScoreLevels
    /\ store = {}
    /\ nextDocId = 1
    /\ nextVecId = 1
    /\ pc = [p \in Procs |-> "idle"]
    /\ req = [p \in Procs |-> NoRequest]
    /\ docId = [p \in Procs |-> NoId]
    /\ todel = [p \in Procs |-> {}]
    /\ res = [p \in Procs |-> NoResult]
    /\ again = [p \in Procs |-> NotAgain]
    /\ calls = 0
    /\ answer = [p \in Procs |-> NoAnswer]
    /\ writes = [p \in Procs |-> 0]
    /\ existingResults = [p \in Procs |-> << >>]
    /\ scan = "byDocument"
    /\ listing = NoListing
    /\ lastListing = NoListing
    /\ swallowed = [p \in Procs |-> "none"]
    /\ overlap = FALSE
    /\ embeddingConfig = DefaultEmbeddingConfig
    /\ embedded = NotEmbedded

(* A caller issues its next call once the previous one has returned.       *)
Startable(p) == pc[p] \in {"idle", "done"}

(* Room left for the identifiers the call may draw.                        *)
Room(c, docs) ==
    /\ nextDocId + docs <= MaxDocs + 1
    /\ nextVecId + VecsNeeded(backend, c) <= MaxVecs + 1

BeginWith(p, r, first, target, result) ==
    /\ Startable(p)
    /\ calls < MaxCalls
    /\ calls' = calls + 1
    /\ answer' = [answer EXCEPT ![p] = NoAnswer]
    /\ writes' = [writes EXCEPT ![p] = 0]
    /\ req' = [req EXCEPT ![p] = r]
    /\ pc' = [pc EXCEPT ![p] = first]
    /\ docId' = [docId EXCEPT ![p] = target]
    /\ todel' = [todel EXCEPT ![p] = {}]
    /\ res' = [res EXCEPT ![p] = result]
    /\ again' = [again EXCEPT ![p] =
                   IF pc[p] = "done" /\ res[p].ok /\ r = req[p]
                   THEN [is |-> TRUE, id |-> res[p].id]
                   ELSE NotAgain]
    /\ swallowed' = [swallowed EXCEPT ![p] = "none"]
    /\ overlap' = (overlap \/ \E q \in Procs \ {p} : ~Startable(q))
    /\ UNCHANGED <<backend, sim, store, nextDocId, nextVecId,
                   existingResults, listVars, embedVars>>

Begin(p, r, first, target) == BeginWith(p, r, first, target, NoResult)

(* Completion of the outermost call.                                       *)
Finish(p, r) ==
    /\ pc' = [pc EXCEPT ![p] = "done"]
    /\ res' = [res EXCEPT ![p] = r]
    /\ docId' = [docId EXCEPT ![p] = NoId]
    /\ todel' = [todel EXCEPT ![p] = {}]

Fail(p, cause) ==
    Finish(p, [res[p] EXCEPT !.ok = FALSE, !.error = ErrorCode(req[p].op),
                             !.cause = cause, !.id = NoId,
                             !.content = NoContent, !.action = "none"])

(* return document: the Document built by addDocument / updateDocument;    *)
(* addDocumentWithDuplicateCheck wraps it with action "updated" on its     *)
(* update branch and "added" after its call of addDocument.                *)
Return(p, id, c) ==
    Finish(p, [res[p] EXCEPT
                 !.ok = TRUE, !.id = id, !.content = c,
                 !.action =
                    IF req[p].op # "addDocumentWithDuplicateCheck" THEN "none"
                    ELSE IF res[p].action = "updated" THEN "updated"
                    ELSE "added"])

(************************** deleteDocumentChunks ***************************)
(* The catch block of deleteDocumentChunks: LibSQL and PgVector log the    *)
(* failure and return normally, Qdrant throws CHUNK_DELETE_ERROR.          *)
DeleteErrorSwallowed(b) == b # "qdrant"

(* A query that asks for no record at all.                                 *)
DeleteQueryTopKNone(b) == 0

DeleteQueryTopK(b) == IF b = "qdrant" THEN DeleteTopKQdrant ELSE DeleteTopK

(* After deleteDocumentChunks has returned: deleteDocument is finished,    *)
(* updateDocument goes on to re-create the chunks when content is truthy.  *)
AfterDelete(p) ==
    IF req[p].op = "deleteDocument"
    THEN Finish(p, [res[p] EXCEPT !.ok = TRUE])
    ELSE IF req[p].content # NoContent
         THEN /\ pc' = [pc EXCEPT ![p] = "upd_upsert"]
              /\ todel' = [todel EXCEPT ![p] = {}]
              /\ UNCHANGED <<res, docId>>
         ELSE Return(p, docId[p], NoContent)

(* A failure inside deleteDocumentChunks; `swallowed` remembers a failure  *)
(* that a catch block kept from the caller of the running operation.       *)
DeleteFailed(p) ==
    IF DeleteErrorSwallowed(backend)
    THEN /\ AfterDelete(p)
         /\ swallowed' = [swallowed EXCEPT ![p] = "delete"]
    ELSE /\ Fail(p, "storage")
         /\ UNCHANGED swallowed

(* vectorStore.query with filter documentId and a zero query vector.       *)
DeleteQuery(p) ==
    /\ pc[p] = "del_query"
    /\ UNCHANGED <<listVars, overlap, embedVars>>
    /\ UNCHANGED <<backend, sim, store, nextDocId, nextVecId, req, again,
                   calls, answer, writes, existingResults>>
    /\ \/ \E T \in TopKSets(ChunksOf(docId[p]), DeleteQueryTopK(backend),
                            NoContent) :
            /\ UNCHANGED swallowed
            /\ IF T = {} THEN AfterDelete(p)
               ELSE /\ todel' = [todel EXCEPT ![p] = {r.id : r \in T}]
                    /\ pc' = [pc EXCEPT ![p] = "del_loop"]
                    /\ UNCHANGED <<res, docId>>
       \/ DeleteFailed(p)

(* One iteration of the loop over the query results: deleteVector by id.   *)
DeleteChunk(p) ==
    /\ pc[p] = "del_loop"
    /\ UNCHANGED <<listVars, overlap, embedVars>>
    /\ UNCHANGED <<backend, sim, nextDocId, nextVecId, req, again, calls,
                   answer, existingResults>>
    /\ writes' = [writes EXCEPT ![p] = writes[p] + 1]
    /\ \E id \in todel[p] :
         \/ /\ store' = DeleteVector(store, id)
            /\ UNCHANGED swallowed
            /\ IF todel[p] = {id} THEN AfterDelete(p)
               ELSE /\ todel' = [todel EXCEPT ![p] = todel[p] \ {id}]
                    /\ UNCHANGED <<pc, res, docId>>
         \/ /\ UNCHANGED store
            /\ DeleteFailed(p)

(***************************** updateDocument ******************************)
(* chunkDocument, generateEmbeddings and vectorStore.upsert of the new     *)
(* content under the document id; the embedding or the upsert may throw.   *)
UpsertChunks(p, at) ==
    /\ pc[p] = at
    /\ UNCHANGED <<listVars, overlap, embedVars>>
    /\ UNCHANGED <<backend, sim, nextDocId, req, again, calls, answer,
                   existingResults, swallowed>>
    /\ \/ /\ store' = Upsert(store,
                ChunkRecords(backend, docId[p], req[p].content, nextVecId,
                             IF at = "add_upsert" THEN docId[p]
                             ELSE NoCreatedAt))
          /\ nextVecId' = nextVecId + VecsNeeded(backend, req[p].content)
          /\ writes' = [writes EXCEPT ![p] = writes[p] + 1]
          /\ Return(p, docId[p], req[p].content)
       \/ /\ UNCHANGED <<store, nextVecId>>
          /\ writes' = [writes EXCEPT ![p] = writes[p] + 1]
          /\ Fail(p, "storage")
       \/ /\ UNCHANGED <<store, nextVecId, writes>>
          /\ Fail(p, "embedding")

UpdateUpsert(p) == UpsertChunks(p, "upd_upsert")

StartUpdate(p) ==
    \E id \in 0..(nextDocId - 1), c \in Contents \cup {NoContent} :
        /\ Room(c, 0)
        /\ Begin(p, [NoRequest EXCEPT !.op = "updateDocument",
                                      !.content = c, !.documentId = id],
                 "del_query", id)

(***************************** deleteDocument ******************************)
StartDelete(p) ==
    \E id \in 0..(nextDocId - 1) :
        Begin(p, [NoRequest EXCEPT !.op = "deleteDocument",
                                   !.documentId = id],
              "del_query", id)

(******************************* addDocument *******************************)
(* findExistingDocument: the document id of the probe's hit, or NoId for   *)
(* null.  LibSQL and PgVector look at the single best neighbour of the     *)
(* first 100 characters; Qdrant takes the first of the 5 best neighbours   *)
(* whose text includes the first 200 characters.                           *)
FindExistingDocument(b, c) ==
    IF b = "qdrant"
    THEN LET q == Substring(c, ProbeCharsQdrant) IN
         UNION {LET E == {r \in T : /\ Includes(r.text, q)
                                    /\ Score(q, r.text) > ProbeThresholdQdrant}
                IN IF E = {} THEN {NoId}
                   ELSE {e.documentId :
                           e \in {x \in E : \A y \in T :
                                    Score(q, y.text) > Score(q, x.text)
                                      => y \notin E}} :
                T \in TopKSets(store, ProbeTopKQdrant, q)}
    ELSE LET q == Substring(c, ProbeChars) IN
         UNION {IF T = {} THEN {NoId}
                ELSE {IF Score(q, r.text) > ProbeThreshold
                      THEN r.documentId ELSE NoId : r \in T} :
                T \in TopKSets(store, ProbeTopK, q)}

(* The catch block of findExistingDocument: a failed search counts as "no  *)
(* duplicate".                                                             *)
FindExistingOnError == NoId

(* addDocument up to the branch on existingDoc: redirect to updateDocument *)
(* or draw a fresh id with randomUUID.                                     *)
AddProbe(p) ==
    /\ pc[p] = "add_probe"
    /\ UNCHANGED <<listVars, overlap, embedVars>>
    /\ UNCHANGED <<backend, sim, store, nextVecId, req, todel, res,
                   again, calls, answer, writes, existingResults>>
    /\ \E failed \in BOOLEAN :
       \E existing \in IF failed THEN {FindExistingOnError}
                       ELSE FindExistingDocument(backend, req[p].content) :
         /\ swallowed' = IF failed THEN [swallowed EXCEPT ![p] = "probe"]
                         ELSE swallowed
         /\ IF existing # NoId
            THEN /\ docId' = [docId EXCEPT ![p] = existing]
                 /\ pc' = [pc EXCEPT ![p] = "del_query"]
                 /\ UNCHANGED nextDocId
            ELSE /\ docId' = [docId EXCEPT ![p] = nextDocId]
                 /\ nextDocId' = nextDocId + 1
                 /\ pc' = [pc EXCEPT ![p] = "add_upsert"]

AddUpsert(p) == UpsertChunks(p, "add_upsert")

StartAdd(p) ==
    \E c \in Contents :
        /\ Room(c, 1)
        /\ Begin(p, [NoRequest EXCEPT !.op = "addDocument", !.content = c],
                 "add_probe", NoId)

(************************** DuplicateCheckService **************************)
(* The orderings in which a query can return the records T: by descending  *)
(* score, ties in any order.                                               *)
SortedSeqs(T, q) ==
    {s \in [1..Cardinality(T) -> T] :
        /\ \A i, j \in 1..Cardinality(T) : i # j => s[i] # s[j]
        /\ \A i, j \in 1..Cardinality(T) :
              i < j => Score(q, s[i].text) >= Score(q, s[j].text)}

(* existingResults.map(...) in addDocumentWithDuplicateCheck.              *)
ToSearchResults(s, q) ==
    [i \in 1..Len(s) |->
        [id |-> s[i].id, content |-> s[i].text,
         documentId |-> s[i].documentId, score |-> Score(q, s[i].text)]]

(* The filter with a strict comparison in place of the inclusive one.      *)
AtLeastStrict(threshold, r) == r.score > threshold

(* The predicate of the filter: result.score >= config.threshold.          *)
AtLeast(threshold, r) == r.score >= threshold

(* checkForDuplicates up to the AI decision: filter by score >= threshold, *)
(* map to SimilarDocument, isDuplicate = similarDocuments.length > 0.      *)
checkForDuplicates(existingSearchResults, threshold) ==
    LET kept == SelectSeq(existingSearchResults,
                          LAMBDA r : AtLeast(threshold, r))
        similarDocuments ==
            [i \in 1..Len(kept) |->
                [documentId |-> kept[i].documentId,
                 content |-> kept[i].content,
                 score |-> kept[i].score,
                 chunkId |-> kept[i].id]]
    IN [isDuplicate |-> Len(similarDocuments) > 0,
        similarDocuments |-> similarDocuments]

(* A catch block that recommends skipping instead of adding.               *)
FallbackSkips ==
    [present |-> TRUE, action |-> "skip", targetDocumentId |-> NoId,
     confidence |-> FallbackConfidence]

(* The catch block of makeAIDecision.                                      *)
FallbackDecision ==
    [present |-> TRUE, action |-> "add", targetDocumentId |-> NoId,
     confidence |-> FallbackConfidence]

(* makeAIDecision: generateText, the regular expression for the braces,    *)
(* JSON.parse, and the fields of the parsed object taken as they are       *)
(* (parsed.action is cast, not validated; confidence is taken when it is   *)
(* a number, else 0.7).                                                    *)
makeAIDecision(a) ==
    IF a.kind \in {"throw", "nojson", "badjson"} THEN FallbackDecision
    ELSE [present |-> TRUE, action |-> a.action,
          targetDocumentId |-> a.targetDocumentId,
          confidence |-> IF a.confidence = NoConfidence
                         THEN DefaultConfidence ELSE a.confidence]

(* A makeAIDecision that calls generateText a second time after a throw.   *)
generateTextCallsWithRetry(a) == IF a.kind = "throw" THEN 2 ELSE 1

(* The number of generateText calls of one makeAIDecision: the call stands *)
(* once in the try block, and the catch block returns the fallback without *)
(* calling again.                                                          *)
generateTextCalls(a) == 1

(* The answers of the text-generation model that the run distinguishes.    *)
Answers ==
    {[NoAnswer EXCEPT !.kind = k] : k \in {"throw", "nojson", "badjson"}}
    \cup {[kind |-> "json", action |-> act, targetDocumentId |-> NoId,
           confidence |-> cf, calls |-> 0] :
             act \in {"skip", "add", "merge", "missing"},
             cf \in {NoConfidence, GoodConfidence, BadConfidence}}
    \cup {[kind |-> "json", action |-> "update", targetDocumentId |-> t,
           confidence |-> GoodConfidence, calls |-> 0] :
             t \in {NoId} \cup 0..(nextDocId - 1)}

(********************** addDocumentWithDuplicateCheck **********************)
(* Only RagService (LibSQL) defines addDocumentWithDuplicateCheck.         *)
HasDuplicateCheck(b) == b = "libsql"

Thresholds == {MidScore, IdenticalScore}

(* generateQueryEmbedding of the first 1000 characters and                 *)
(* vectorStore.query with topK = duplicateCheckConfig.topK || 10.          *)
DuplicateQuery(p) ==
    /\ pc[p] = "dc_query"
    /\ UNCHANGED <<listVars, overlap, embedVars>>
    /\ UNCHANGED <<backend, sim, store, nextDocId, nextVecId, req, again,
                   calls, answer, writes, swallowed>>
    /\ \/ /\ \E cause \in {"embedding", "storage"} : Fail(p, cause)
          /\ UNCHANGED existingResults
       \/ LET q == Substring(req[p].content, DupProbeChars) IN
          \E T \in TopKSets(store, DefaultDupTopK, q) :
          \E s \in SortedSeqs(T, q) :
            /\ existingResults' =
                  [existingResults EXCEPT ![p] = ToSearchResults(s, q)]
            /\ pc' = [pc EXCEPT ![p] = "dc_check"]
            /\ UNCHANGED <<docId, todel, res>>

(* createSkippedDocument: a Document that is never stored.                 *)
createSkippedDocument(r, c) ==
    [r EXCEPT !.ok = TRUE, !.id = SkippedId, !.content = c,
              !.skipped = TRUE, !.action = "skipped"]

(* A switch without its case "skip": every decision that is not an update  *)
(* with a target falls through to addDocument.                             *)
BranchWithoutSkip(decision) ==
    IF decision.action = "update" /\ decision.targetDocumentId # NoId
    THEN "updated"
    ELSE "added"

(* A switch whose case "update" does not look at targetDocumentId.         *)
BranchUpdateWithoutTarget(decision) ==
    IF decision.action = "skip" THEN "skipped"
    ELSE IF decision.action = "update" THEN "updated"
         ELSE "added"

(* The switch on decision.action: what addDocumentWithDuplicateCheck does  *)
(* with the decision.                                                      *)
Branch(decision) ==
    IF decision.action = "skip" THEN "skipped"
    ELSE IF decision.action = "update" /\ decision.targetDocumentId # NoId
         THEN "updated"
         ELSE "added"

(* The call of checkForDuplicates (with makeAIDecision when the content is *)
(* a duplicate) and the switch on the decision.                            *)
CheckForDuplicates(p) ==
    /\ pc[p] = "dc_check"
    /\ UNCHANGED <<listVars, overlap, embedVars>>
    /\ UNCHANGED <<backend, sim, store, nextDocId, nextVecId, req, again,
                   calls, writes, swallowed>>
    /\ existingResults' = [existingResults EXCEPT ![p] = << >>]
    /\ LET dcr == checkForDuplicates(existingResults[p], req[p].threshold)
           seen == [res[p] EXCEPT !.isDuplicate = dcr.isDuplicate,
                                  !.similar = dcr.similarDocuments]
       IN IF ~dcr.isDuplicate
          THEN /\ res' = [res EXCEPT ![p] = [seen EXCEPT !.action = "added"]]
               /\ pc' = [pc EXCEPT ![p] = "add_probe"]
               /\ UNCHANGED <<docId, todel, answer>>
          ELSE \E a \in Answers :
            LET decision == makeAIDecision(a)
                r == [seen EXCEPT !.decision = decision,
                                  !.action = Branch(decision)]
            IN /\ answer' = [answer EXCEPT ![p] =
                               [a EXCEPT !.calls = generateTextCalls(a)]]
               /\ CASE Branch(decision) = "skipped" ->
                         Finish(p, createSkippedDocument(r, req[p].content))
                    [] Branch(decision) = "updated" ->
                         /\ res' = [res EXCEPT ![p] = r]
                         /\ docId' = [docId EXCEPT ![p] =
                                         decision.targetDocumentId]
                         /\ pc' = [pc EXCEPT ![p] = "del_query"]
                         /\ UNCHANGED todel
                    [] OTHER ->
                         /\ res' = [res EXCEPT ![p] = r]
                         /\ pc' = [pc EXCEPT ![p] = "add_probe"]
                         /\ UNCHANGED <<docId, todel>>

(* The add_document tool builds finalDuplicateConfig from enabled,          *)
(* threshold, strategy and topK: duplicateCheck.allowAIDecision of the     *)
(* tool input is not copied into it, and nothing reads it afterwards.      *)
StartAddWithDuplicateCheck(p) ==
    /\ HasDuplicateCheck(backend)
    /\ \E c \in Contents, en \in BOOLEAN, th \in Thresholds,
          allow \in BOOLEAN :
        /\ Room(c, 1)
        /\ en \/ allow
        /\ Begin(p, [NoRequest EXCEPT
                        !.op = "addDocumentWithDuplicateCheck",
                        !.content = c, !.enabled = en,
                        !.threshold = IF en THEN th ELSE 0,
                        !.allowAIDecision = allow],
                 IF en THEN "dc_query" ELSE "add_probe", NoId)

(* The add_document tool on a service that defines no                      *)
(* addDocumentWithDuplicateCheck (the tools take the created service       *)
(* `as any`): calling the undefined member throws a TypeError, which the   *)
(* catch block of the tool turns into its failure text.                    *)
AddDocumentToolTypeError(p) ==
    /\ ~HasDuplicateCheck(backend)
    /\ \E c \in Contents, en \in BOOLEAN, th \in Thresholds :
        BeginWith(p, [NoRequest EXCEPT
                        !.op = "addDocumentWithDuplicateCheck",
                        !.content = c, !.enabled = en,
                        !.threshold = IF en THEN th ELSE 0],
                  "done", NoId,
                  [NoResult EXCEPT !.error = "TypeError",
                                   !.cause = "not_a_function"])

(****************************** specification ******************************)
Step(p) ==
    \/ StartAdd(p)
    \/ StartUpdate(p)
    \/ StartDelete(p)
    \/ StartAddWithDuplicateCheck(p)
    \/ AddDocumentToolTypeError(p)
    \/ DuplicateQuery(p)
    \/ CheckForDuplicates(p)
    \/ AddProbe(p)
    \/ AddUpsert(p)
    \/ DeleteQuery(p)
    \/ DeleteChunk(p)
    \/ UpdateUpsert(p)

(* One caller issuing its calls one after the other.                       *)
Next == Step(1)

Spec == Init /\ [][Next]_vars

(***************************** concurrent callers **************************)
(* Two tool calls in flight on one service: every await of an operation    *)
(* (query, deleteVector, embedding + upsert) is a point where the other    *)
(* operation can run.  The index holds document 1, stored from the long    *)
(* content, and document 2, stored from a short one.  `overlap` remembers   *)
(* that an operation began while another one was running.                  *)
ConcStores(b) ==
    {ChunkRecords(b, 1, "L", 0 - 3, 1) \cup ChunkRecords(b, 2, "a", 0 - 1, 2)}

ConcInit ==
    /\ backend \in Backends
    /\ sim \in {LowScore}
    /\ store \in ConcStores(backend)
    /\ nextDocId = MaxDocs + 1
    /\ nextVecId = 1
    /\ pc = [p \in Procs |-> "idle"]
    /\ req = [p \in Procs |-> NoRequest]
    /\ docId = [p \in Procs |-> NoId]
    /\ todel = [p \in Procs |-> {}]
    /\ res = [p \in Procs |-> NoResult]
    /\ again = [p \in Procs |-> NotAgain]
    /\ calls = 0
    /\ answer = [p \in Procs |-> NoAnswer]
    /\ writes = [p \in Procs |-> 0]
    /\ existingResults = [p \in Procs |-> << >>]
    /\ scan = "byDocument"
    /\ listing = NoListing
    /\ lastListing = NoListing
    /\ swallowed = [p \in Procs |-> "none"]
    /\ overlap = FALSE
    /\ embeddingConfig = DefaultEmbeddingConfig
    /\ embedded = NotEmbedded

(* Each caller issues one call.                                             *)
ConcStep(p) ==
    \/ pc[p] = "idle" /\ StartUpdate(p)
    \/ pc[p] = "idle" /\ StartDelete(p)
    \/ DeleteQuery(p)
    \/ DeleteChunk(p)
    \/ UpdateUpsert(p)

ConcNext == \E p \in Procs : ConcStep(p)

ConcSpec == ConcInit /\ [][ConcNext]_vars

(**************************** concurrent adds ******************************)
(* Two add_document calls in flight on one service over an empty index:    *)
(* each caller issues one addDocument, and every await (the probe, the     *)
(* embedding + upsert, the steps of a redirected update) is a point where  *)
(* the other call can run.                                                 *)
ConcAddInit ==
    /\ backend \in Backends
    /\ sim \in ScoreLevels
    /\ store = {}
    /\ nextDocId = 1
    /\ nextVecId = 1
    /\ pc = [p \in Procs |-> "idle"]
    /\ req = [p \in Procs |-> NoRequest]
    /\ docId = [p \in Procs |-> NoId]
    /\ todel = [p \in Procs |-> {}]
    /\ res = [p \in Procs |-> NoResult]
    /\ again = [p \in Procs |-> NotAgain]
    /\ calls = 0
    /\ answer = [p \in Procs |-> NoAnswer]
    /\ writes = [p \in Procs |-> 0]
    /\ existingResults = [p \in Procs |-> << >>]
    /\ scan = "byDocument"
    /\ listing = NoListing
    /\ lastListing = NoListing
    /\ swallowed = [p \in Procs |-> "none"]
    /\ overlap = FALSE
    /\ embeddingConfig = DefaultEmbeddingConfig
    /\ embedded = NotEmbedded

ConcAddStep(p) ==
    \/ pc[p] = "idle" /\ StartAdd(p)
    \/ AddProbe(p)
    \/ AddUpsert(p)
    \/ DeleteQuery(p)
    \/ DeleteChunk(p)
    \/ UpdateUpsert(p)

ConcAddNext == \E p \in Procs : ConcAddStep(p)

ConcAddSpec == ConcAddInit /\ [][ConcAddNext]_vars

(*************************** re-running a deletion *************************)
(* Callers that re-run deleteDocument on document 1 for as long as their   *)
(* last run met a storage failure (thrown by Qdrant, logged and swallowed  *)
(* by LibSQL and PgVector).  The index holds document 1, stored from the   *)
(* long content, and document 2.  `calls` counts the runs up to MaxCalls.  *)
RetryTarget == 1

RetryInit ==
    /\ backend \in Backends
    /\ sim \in {LowScore}
    /\ store \in ConcStores(backend)
    /\ nextDocId = MaxDocs + 1
    /\ nextVecId = 1
    /\ pc = [p \in Procs |-> "idle"]
    /\ req = [p \in Procs |-> NoRequest]
    /\ docId = [p \in Procs |-> NoId]
    /\ todel = [p \in Procs |-> {}]
    /\ res = [p \in Procs |-> NoResult]
    /\ again = [p \in Procs |-> NotAgain]
    /\ calls = 0
    /\ answer = [p \in Procs |-> NoAnswer]
    /\ writes = [p \in Procs |-> 0]
    /\ existingResults = [p \in Procs |-> << >>]
    /\ scan = "byDocument"
    /\ listing = NoListing
    /\ lastListing = NoListing
    /\ swallowed = [p \in Procs |-> "none"]
    /\ overlap = FALSE
    /\ embeddingConfig = DefaultEmbeddingConfig
    /\ embedded = NotEmbedded

(* The last run of the caller met a storage failure.                       *)
MetFailure(p) == pc[p] = "done" /\ (~res[p].ok \/ swallowed[p] # "none")

(* deleteDocument(RetryTarget): the first run of a caller, or a re-run.    *)
RetryDelete(p) ==
    /\ pc[p] = "idle" \/ MetFailure(p)
    /\ calls' = Min(calls + 1, MaxCalls)
    /\ req' = [req EXCEPT ![p] = [NoRequest EXCEPT
                                    !.op = "deleteDocument",
                                    !.documentId = RetryTarget]]
    /\ pc' = [pc EXCEPT ![p] = "del_query"]
    /\ docId' = [docId EXCEPT ![p] = RetryTarget]
    /\ todel' = [todel EXCEPT ![p] = {}]
    /\ res' = [res EXCEPT ![p] = NoResult]
    /\ writes' = [writes EXCEPT ![p] = 0]
    /\ swallowed' = [swallowed EXCEPT ![p] = "none"]
    /\ UNCHANGED <<backend, sim, store, nextDocId, nextVecId, again, answer,
                   existingResults, listVars, overlap, embedVars>>

RetryStep(p) ==
    \/ RetryDelete(p)
    \/ DeleteQuery(p)
    \/ DeleteChunk(p)

RetryNext == \E p \in Procs : RetryStep(p)

(* A step of deleteDocumentChunks in which the storage call succeeded.     *)
StorageAnswered(p) ==
    /\ swallowed'[p] = "none"
    /\ pc'[p] = "done" => res'[p].ok

(* Every caller goes on, and storage failures are transient: a query and a *)
(* deleteVector that are tried again and again succeed at some time.       *)
RetryFairness ==
    \A p \in Procs :
        /\ WF_vars(RetryStep(p))
        /\ SF_vars(DeleteQuery(p) /\ StorageAnswered(p))
        /\ SF_vars(DeleteChunk(p) /\ StorageAnswered(p))

RetrySpec == RetryInit /\ [][RetryNext]_vars /\ RetryFairness

(************************* listing an existing index ***********************)
(* The indexes the listing is run on: each of the documents 1..MaxListDocs *)
(* is absent (never added, or deleted), or stored from a short or a long   *)
(* content, by addDocument (chunks stamped with createdAt) or by a later   *)
(* updateDocument (chunks without createdAt).                              *)
ListDocKinds ==
    [content : {NoContent, "a", "L"}, stamped : BOOLEAN]

ListStores(b) ==
    {UNION {ChunkRecords(b, id, f[id].content, 2 * id - 1,
                         IF f[id].stamped THEN id ELSE NoCreatedAt) :
              id \in 1..MaxListDocs} :
        f \in [1..MaxListDocs -> ListDocKinds]}

ListInit ==
    /\ backend \in Backends
    /\ sim \in {LowScore}
    /\ store \in ListStores(backend)
    /\ nextDocId = MaxListDocs + 1
    /\ nextVecId = 2 * MaxListDocs + 1
    /\ pc = [p \in Procs |-> "idle"]
    /\ req = [p \in Procs |-> NoRequest]
    /\ docId = [p \in Procs |-> NoId]
    /\ todel = [p \in Procs |-> {}]
    /\ res = [p \in Procs |-> NoResult]
    /\ again = [p \in Procs |-> NotAgain]
    /\ calls = 0
    /\ answer = [p \in Procs |-> NoAnswer]
    /\ writes = [p \in Procs |-> 0]
    /\ existingResults = [p \in Procs |-> << >>]
    /\ scan \in ScanOrders
    /\ listing = NoListing
    /\ lastListing = NoListing
    /\ swallowed = [p \in Procs |-> "none"]
    /\ overlap = FALSE
    /\ embeddingConfig = DefaultEmbeddingConfig
    /\ embedded = NotEmbedded

(* The readings of the clock (new Date()) during one listing: one per map  *)
(* entry, never going back, all later than every stored createdAt.         *)
NowClocks ==
    {now \in [1..MaxListDocs ->
                (MaxListDocs + 1)..(MaxListDocs + MaxTicks)] :
        \A i, j \in 1..MaxListDocs : i < j => now[i] <= now[j]}

Limits == 1..MaxListDocs
Offsets == 0..(MaxListDocs - 1)

(* One call of the list_documents tool, which calls                        *)
(* listDocuments(indexName, limit, offset) on the created service: the     *)
(* service defines no such member (TypeError), the query throws            *)
(* (DOCUMENT_LIST_ERROR), or the page is returned.                         *)
List(limit, offset) ==
    \/ /\ ~HasListDocuments(backend)
       /\ listing' = [NoListing EXCEPT !.state = "failed", !.limit = limit,
                                       !.offset = offset,
                                       !.error = "TypeError"]
    \/ /\ HasListDocuments(backend)
       /\ listing' = [NoListing EXCEPT !.state = "failed", !.limit = limit,
                                       !.offset = offset,
                                       !.error = "DOCUMENT_LIST_ERROR"]
    \/ /\ HasListDocuments(backend)
       /\ \E now \in NowClocks :
            LET page == listDocuments(backend,
                                      ScanResults(store, scan, ListTopK),
                                      limit, offset, now)
            IN listing' = [state |-> "done", limit |-> limit,
                           offset |-> offset, documents |-> page.documents,
                           total |-> page.total, error |-> "none"]

ListFirstPage ==
    /\ listing.state = "none"
    /\ \E limit \in Limits, offset \in Offsets : List(limit, offset)
    /\ UNCHANGED <<backend, sim, store, nextDocId, nextVecId, pc, req, docId,
                   todel, res, again, calls, answer, writes, existingResults,
                   scan, lastListing, swallowed, overlap, embedVars>>

(* The caller asks for the page that follows the one it got.               *)
ListNextPage ==
    /\ listing.state = "done"
    /\ lastListing.state = "none"
    /\ lastListing' = listing
    /\ List(listing.limit, listing.offset + listing.limit)
    /\ UNCHANGED <<backend, sim, store, nextDocId, nextVecId, pc, req, docId,
                   todel, res, again, calls, answer, writes, existingResults,
                   scan, swallowed, overlap, embedVars>>

ListNext == ListFirstPage \/ ListNextPage

ListSpec == ListInit /\ [][ListNext]_vars

(************************** embedding under a configuration ****************)
(* A service created on a backend with an embedding configuration.         *)
EmbedInit ==
    /\ backend \in Backends
    /\ sim = LowScore
    /\ store = {}
    /\ nextDocId = 1
    /\ nextVecId = 1
    /\ pc = [p \in Procs |-> "idle"]
    /\ req = [p \in Procs |-> NoRequest]
    /\ docId = [p \in Procs |-> NoId]
    /\ todel = [p \in Procs |-> {}]
    /\ res = [p \in Procs |-> NoResult]
    /\ again = [p \in Procs |-> NotAgain]
    /\ calls = 0
    /\ answer = [p \in Procs |-> NoAnswer]
    /\ writes = [p \in Procs |-> 0]
    /\ existingResults = [p \in Procs |-> << >>]
    /\ scan = "byDocument"
    /\ listing = NoListing
    /\ lastListing = NoListing
    /\ swallowed = [p \in Procs |-> "none"]
    /\ overlap = FALSE
    /\ embeddingConfig \in EmbeddingConfigs
    /\ embedded = NotEmbedded

(* generateEmbeddings(chunks.map(chunk => chunk.content)).                 *)
generateEmbeddings ==
    /\ \E c \in Contents : Embed("embedMany", ChunkTexts(c))
    /\ UNCHANGED <<backend, sim, store, nextDocId, nextVecId, pc, req, docId,
                   todel, res, again, calls, answer, writes, existingResults,
                   listVars, swallowed, overlap, embeddingConfig>>

(* generateQueryEmbedding(query).                                          *)
generateQueryEmbedding ==
    /\ \E c \in Contents : Embed("embed", <<Substring(c, ProbeChars)>>)
    /\ UNCHANGED <<backend, sim, store, nextDocId, nextVecId, pc, req, docId,
                   todel, res, again, calls, answer, writes, existingResults,
                   listVars, swallowed, overlap, embeddingConfig>>

EmbedNext == generateEmbeddings \/ generateQueryEmbedding

EmbedSpec == EmbedInit /\ [][EmbedNext]_vars

(******************************** claims ***********************************)
Done(p) == pc[p] = "done"

Range(f) == {f[i] : i \in DOMAIN f}

(* The text and ordinal of every chunk stored under a document id, and of  *)
(* every chunk a content is split into.                                    *)
StoredChunks(id) ==
    {[text |-> r.text, chunkIndex |-> r.chunkIndex] : r \in ChunksOf(id)}

ChunksOfContent(c) ==
    {[text |-> ChunkTexts(c)[i], chunkIndex |-> i - 1] :
        i \in 1..Len(ChunkTexts(c))}

(* C1: addDocument called twice in sequence with the same content yields   *)
(* one logical document: the second call returns the document of the first *)
(* call, and the chunks of that content are stored under that id alone.    *)
C1_ReAddYieldsOneDocument ==
    \A p \in Procs :
        (/\ Done(p) /\ req[p].op = "addDocument"
         /\ again[p].is /\ res[p].ok)
        => /\ res[p].id = again[p].id
           /\ {r.documentId : r \in {x \in store :
                   x.text \in Range(ChunkTexts(req[p].content))}}
                = {again[p].id}

(* C2: once deleteDocument(id) has returned without error, no chunk with   *)
(* documentId = id is left in the index, on every backend.                 *)
C2_DeleteLeavesNoChunk ==
    \A p \in Procs :
        (Done(p) /\ req[p].op = "deleteDocument" /\ res[p].ok)
        => ChunksOf(req[p].documentId) = {}

(* C3: deleteDocument(id) called a second time in a row, after the first   *)
(* call returned without error, changes no stored chunk and raises no      *)
(* error of its own (only a failing storage call can make it fail).        *)
C3_SecondDeleteChangesNothing ==
    [][\A p \in Procs :
         (/\ req[p].op = "deleteDocument" /\ again[p].is
          /\ pc[p] \in {"del_query", "del_loop"})
         => /\ store' = store
            /\ (pc'[p] = "done" => res'[p].ok \/ res'[p].cause = "storage")
      ]_vars

(* C4: updateDocument(id) with the content omitted, once returned without  *)
(* error, leaves no chunk under id, has upserted nothing and returns a     *)
(* document with empty content.                                            *)
C4_UpdateWithoutContentLeavesNoChunk ==
    \A p \in Procs :
        (/\ Done(p) /\ req[p].op = "updateDocument"
         /\ req[p].content = NoContent /\ res[p].ok)
        => /\ ChunksOf(req[p].documentId) = {}
           /\ res[p].id = req[p].documentId
           /\ res[p].content = NoContent

(* C5: once updateDocument(id, content) with non-empty content has         *)
(* returned without error, the chunks stored under id are exactly the      *)
(* chunks of the new content: no older chunk survives.                     *)
C5_UpdateReplacesChunks ==
    \A p \in Procs :
        (/\ Done(p) /\ req[p].op = "updateDocument"
         /\ req[p].content # NoContent /\ res[p].ok)
        => /\ StoredChunks(req[p].documentId)
                = ChunksOfContent(req[p].content)
           /\ Cardinality(ChunksOf(req[p].documentId))
                = Len(ChunkTexts(req[p].content))

(* C6: the step of checkForDuplicates keeps exactly the neighbour results  *)
(* whose score is at least the threshold (a score equal to the threshold   *)
(* is kept), in the order they came in, each carried over field by field,  *)
(* and isDuplicate is true exactly when the kept list is not empty.        *)
C6_FilterIsInclusiveAndOrdered ==
    [][\A p \in Procs :
         (pc[p] = "dc_check" /\ pc'[p] # "dc_check")
         => LET given == existingResults[p]
                out == res'[p].similar
                K == {i \in 1..Len(given) : given[i].score >= req[p].threshold}
            IN /\ Len(out) = Cardinality(K)
               /\ \A k \in 1..Len(out) : \E i \in K :
                     /\ Cardinality({j \in K : j <= i}) = k
                     /\ out[k].documentId = given[i].documentId
                     /\ out[k].content = given[i].content
                     /\ out[k].score = given[i].score
                     /\ out[k].chunkId = given[i].id
               /\ res'[p].isDuplicate <=> (K # {})
      ]_vars

(* Two records were searched, the one scoring exactly the threshold was    *)
(* kept and the other one dropped.                                         *)
C6_Witness ==
    \E p \in Procs :
        /\ Done(p) /\ res[p].action = "skipped"
        /\ Cardinality(store) = 2
        /\ Len(res[p].similar) = 1
        /\ res[p].similar[1].score = req[p].threshold
        /\ res[p].isDuplicate

(* C7: when the text-generation call has thrown, the decision is           *)
(* {action: add, confidence: 0.5}, the request goes on through addDocument *)
(* and, unless a storage or embedding call fails, completes with action    *)
(* 'added'.                                                                *)
C7_LlmFailureFallsBackToAdd ==
    \A p \in Procs :
        answer[p].kind = "throw"
        => /\ res[p].decision.present
           /\ res[p].decision.action = "add"
           /\ res[p].decision.confidence = FallbackConfidence
           /\ pc[p] \in {"add_probe", "add_upsert", "del_query", "del_loop",
                         "upd_upsert", "done"}
           /\ (Done(p) /\ res[p].ok
                 => /\ res[p].action = "added"
                    /\ ~res[p].skipped
                    /\ ChunksOf(res[p].id) # {})
           /\ (Done(p) /\ ~res[p].ok
                 => res[p].cause \in {"storage", "embedding"})

C7_Witness ==
    \E p \in Procs :
        /\ answer[p].kind = "throw"
        /\ Done(p) /\ res[p].ok /\ res[p].action = "added"
        /\ res[p].isDuplicate
        /\ ChunksOf(res[p].id) # {}

(* C8: every decision the detector returns has an action among skip,       *)
(* update and add and a confidence between 0 and 1.                        *)
C8_DecisionIsWellFormed ==
    \A p \in Procs :
        res[p].decision.present
        => /\ res[p].decision.action \in {"skip", "update", "add"}
           /\ res[p].decision.confidence \in 0..100

(* C9: a decision with action 'skip' ends the request at once: no upsert   *)
(* and no deleteVector was issued, the result is action 'skipped' with a   *)
(* placeholder document marked skipped that is stored nowhere.             *)
C9_SkipWritesNothing ==
    \A p \in Procs :
        (req[p].op = "addDocumentWithDuplicateCheck"
         /\ res[p].decision.action = "skip")
        => /\ Done(p) /\ res[p].ok
           /\ res[p].action = "skipped"
           /\ res[p].skipped
           /\ res[p].content = req[p].content
           /\ writes[p] = 0
           /\ ChunksOf(res[p].id) = {}

C9_Witness ==
    \E p \in Procs :
        /\ res[p].decision.action = "skip"
        /\ Done(p) /\ res[p].action = "skipped" /\ res[p].skipped
        /\ writes[p] = 0
        /\ store # {}

(* C10: a decision with action 'update' and a target id sends the request  *)
(* through updateDocument on that id and never through addDocument; once   *)
(* it has returned without error the result is action 'updated' on the     *)
(* target id and the chunks under the target are those of the new content. *)
C10_UpdateDecisionReplacesTarget ==
    \A p \in Procs :
        (/\ req[p].op = "addDocumentWithDuplicateCheck"
         /\ res[p].decision.action = "update"
         /\ res[p].decision.targetDocumentId # NoId)
        => /\ pc[p] \in {"del_query", "del_loop", "upd_upsert", "done"}
           /\ docId[p] \in {res[p].decision.targetDocumentId, NoId}
           /\ (Done(p) /\ res[p].ok
                 => /\ res[p].action = "updated"
                    /\ res[p].id = res[p].decision.targetDocumentId
                    /\ StoredChunks(res[p].id)
                         = ChunksOfContent(req[p].content)
                    /\ Cardinality(ChunksOf(res[p].id))
                         = Len(ChunkTexts(req[p].content)))

(* C11: a decision with action 'update' that names no target is handled    *)
(* as 'add': the request goes on through addDocument, never straight into  *)
(* updateDocument on the decision's behalf, and once it has returned       *)
(* without error the result is action 'added' with a stored document.      *)
C11_UpdateWithoutTargetIsAdd ==
    \A p \in Procs :
        (/\ req[p].op = "addDocumentWithDuplicateCheck"
         /\ res[p].decision.action = "update"
         /\ res[p].decision.targetDocumentId = NoId)
        => /\ res[p].action # "updated"
           /\ res[p].action # "skipped"
           /\ pc[p] \in {"add_probe", "add_upsert", "del_query", "del_loop",
                         "upd_upsert", "done"}
           /\ docId[p] # NoId \/ pc[p] \in {"add_probe", "done"}
           /\ (Done(p) /\ res[p].ok
                 => /\ res[p].action = "added"
                    /\ ~res[p].skipped
                    /\ res[p].id \in 0..(nextDocId - 1)
                    /\ ChunksOf(res[p].id) # {})

C11_Witness ==
    \E p \in Procs :
        /\ res[p].decision.action = "update"
        /\ res[p].decision.targetDocumentId = NoId
        /\ Done(p) /\ res[p].ok /\ res[p].action = "added"
        /\ ChunksOf(res[p].id) # {}

(* The documents of the index, the createdAt their chunks carry, and the   *)
(* documents whose chunks carry none.                                      *)
DocIds == {r.documentId : r \in store}

Stamp(id) == (CHOOSE r \in ChunksOf(id) : TRUE).createdAt

Unstamped == {id \in DocIds : Stamp(id) = NoCreatedAt}

PageIds(l) == {l.documents[k].id : k \in 1..Len(l.documents)}

(* One returned page: total counts the distinct documents, the page has    *)
(* min(limit, total - offset) entries in descending createdAt, and each    *)
(* entry stands at its place in the full list: a document without a stored *)
(* createdAt among the first ones (its createdAt is the time of the        *)
(* listing), a stamped document after them and after every younger one.    *)
PageIsSliceOfSortedList(l) ==
    l.state = "done" =>
    /\ l.total = Cardinality(DocIds)
    /\ Len(l.documents) =
          (IF l.total - l.offset < 0 THEN 0
           ELSE Min(l.limit, l.total - l.offset))
    /\ \A k \in 1..Len(l.documents) :
          LET d == l.documents[k] IN
          /\ d.id \in DocIds
          /\ IF Stamp(d.id) # NoCreatedAt
             THEN /\ d.createdAt = Stamp(d.id)
                  /\ l.offset + k = 1 + Cardinality(Unstamped)
                       + Cardinality({j \in DocIds : Stamp(j) > Stamp(d.id)})
             ELSE /\ d.createdAt > MaxListDocs
                  /\ l.offset + k <= Cardinality(Unstamped)
    /\ \A k \in 1..(Len(l.documents) - 1) :
          l.documents[k].createdAt >= l.documents[k + 1].createdAt

(* Two consecutive pages share no document, and when they reach the end of *)
(* the list from offset 0 they hold every document.                        *)
ConsecutivePagesPartition ==
    (lastListing.state = "done" /\ listing.state = "done")
    => /\ PageIds(lastListing) \cap PageIds(listing) = {}
       /\ (lastListing.offset = 0 /\ listing.total <= 2 * listing.limit
             => PageIds(lastListing) \cup PageIds(listing) = DocIds)

C13_OneDocumentPerId ==
    listing.state = "done"
    => /\ \A i, j \in 1..Len(listing.documents) :
             listing.documents[i].id = listing.documents[j].id => i = j
       /\ PageIds(listing) \subseteq DocIds
       /\ \A k \in 1..Len(listing.documents) :
             \E r \in store :
                /\ r.documentId = listing.documents[k].id
                /\ r.text = listing.documents[k].content
       /\ (listing.offset = 0 /\ listing.limit >= Cardinality(DocIds)
             => PageIds(listing) = DocIds)

C13_Witness ==
    /\ listing.state = "done"
    /\ listing.offset = 0
    /\ Len(listing.documents) = MaxListDocs
    /\ Cardinality(store) > MaxListDocs
    /\ PageIds(listing) = DocIds

(* C14: every listed Document carries a chunk count equal to the number of *)
(* retrieved chunk records with its documentId, on LibSQL and on Qdrant.   *)
C14_ChunkCountIsNumberOfChunks ==
    listing.state = "done"
    => \A k \in 1..Len(listing.documents) :
          listing.documents[k].chunks
             = Cardinality(ChunksOf(listing.documents[k].id))

(* C15: a storage or embedding failure during addDocument or               *)
(* updateDocument, the probe query and the deletion of the old chunks      *)
(* included, ends the operation at once with its RagError: no operation    *)
(* goes on, or returns normally, after one of its calls has failed.        *)
C15_FailureAbortsWithRagError ==
    \A p \in Procs :
        req[p].op \in {"addDocument", "updateDocument"}
        => /\ swallowed[p] = "none"
           /\ (res[p].cause # "none"
                 => /\ Done(p) /\ ~res[p].ok
                    /\ res[p].error = ErrorCode(req[p].op))

(* C16: deleteDocument returns normally only if the documentId query and   *)
(* every deleteVector succeeded; a failure among them reaches the caller   *)
(* as an error.                                                            *)
C16_DeleteFailureIsSurfaced ==
    \A p \in Procs :
        req[p].op = "deleteDocument"
        => /\ swallowed[p] = "none"
           /\ (Done(p) /\ res[p].ok => ChunksOf(req[p].documentId) = {})

(* A completed, fault-free updateDocument(id, c) of caller p, and whether  *)
(* the chunks stored under id are exactly the chunks of c.                 *)
UpdatedCleanly(p, id) ==
    /\ Done(p) /\ req[p].op = "updateDocument" /\ req[p].documentId = id
    /\ res[p].ok /\ swallowed[p] = "none"

HoldsChunksOf(id, c) ==
    /\ StoredChunks(id) = ChunksOfContent(c)
    /\ Cardinality({r \in store : r.documentId = id}) = Len(ChunkTexts(c))

(* C17: two updateDocument calls on one id that ran one after the other    *)
(* leave the chunk set of one of them; a chunk set that is neither (see    *)
(* the witness) arises only when their steps interleave.                   *)
C17_SerialUpdatesLeaveOneChunkSet ==
    \A id \in 0..MaxDocs :
        ((\A p \in Procs : UpdatedCleanly(p, id)) /\ ~overlap)
        => \E p \in Procs : HoldsChunksOf(id, req[p].content)

(* Two interleaved, fault-free updates of one id have both returned and    *)
(* the chunks stored under the id are the chunk set of neither.            *)
C17_Witness ==
    \E id \in 0..MaxDocs :
        /\ \A p \in Procs : UpdatedCleanly(p, id)
        /\ overlap
        /\ \A p \in Procs : ~HoldsChunksOf(id, req[p].content)

(* C18: a storage step changes the chunks of a document id only if it      *)
(* belongs to a request on that id; and a fault-free update or delete,     *)
(* whatever runs concurrently on other ids, leaves under its id what it    *)
(* leaves when run alone: the chunks of its content, or none.              *)
C18_OtherIdsDoNotInterfere ==
    /\ [](\A p \in Procs :
            (/\ Done(p) /\ res[p].ok /\ swallowed[p] = "none"
             /\ req[p].op \in {"updateDocument", "deleteDocument"}
             /\ \A q \in Procs \ {p} : req[q].documentId # req[p].documentId)
            => HoldsChunksOf(req[p].documentId, req[p].content))
    /\ [][\A id \in 0..MaxDocs :
            {r \in store' : r.documentId = id}
               # {r \in store : r.documentId = id}
            => \E p \in Procs : /\ docId[p] = id
                                /\ pc[p] \in {"del_loop", "upd_upsert"}
         ]_vars

C18_Witness ==
    /\ overlap
    /\ \A p \in Procs :
          /\ Done(p) /\ res[p].ok /\ swallowed[p] = "none"
          /\ req[p].documentId = p
          /\ HoldsChunksOf(p, req[p].content)
    /\ \E p \in Procs : req[p].op = "updateDocument" /\ req[p].content = "L"
    /\ \E p \in Procs : req[p].op = "deleteDocument"


(* The providers that offer an embedding model: Anthropic offers none.     *)
EmbeddingProviders == {"openai", "google"}

(* C19: an embedding call under a provider that is unsupported or offers   *)
(* no embedding model fails with an unsupported-provider error on every    *)
(* backend, and vectors are only ever produced by the configured           *)
(* provider.                                                               *)
C19_UnsupportedProviderFailsLoudly ==
    embedded.state # "none" =>
        /\ embedded.state = "done" =>
              embedded.provider = embeddingConfig.provider
        /\ embeddingConfig.provider \notin EmbeddingProviders =>
              /\ embedded.state = "failed"
              /\ embedded.error \in {"INVALID_EMBEDDING_PROVIDER",
                                     "UNSUPPORTED_PROVIDER"}

(* C20: the add_document and list_documents tools find the operation they  *)
(* call on the service of every backend: no tool call ends in the          *)
(* TypeError of a missing addDocumentWithDuplicateCheck or listDocuments.  *)
C20_EveryBackendOffersTheToolOperations ==
    /\ \A p \in Procs : res[p].error # "TypeError"
    /\ listing.error # "TypeError"

(* C21: a request of add_document with duplicateCheck.allowAIDecision =    *)
(* false makes no call of the text-generation model and carries no AI      *)
(* decision, whatever similar documents are found.                         *)
C21_NoAIDecisionWhenNotAllowed ==
    \A p \in Procs :
        (req[p].op = "addDocumentWithDuplicateCheck"
            /\ ~req[p].allowAIDecision) =>
        /\ answer[p].kind = "none"
        /\ ~res[p].decision.present

(* C22: between requests no document is without chunks and no chunk is     *)
(* without document: a delete that has returned leaves no chunk under its  *)
(* id, an add or update that has returned a Document with content leaves   *)
(* at least one chunk under the id of that Document, and no add or update  *)
(* returns having taken the last chunk from a document that had chunks.    *)
C22_DocumentsAndChunksLiveTogether ==
    /\ [](\A p \in Procs :
            (Done(p) /\ res[p].ok) =>
                /\ req[p].op = "deleteDocument" =>
                      ChunksOf(req[p].documentId) = {}
                /\ (req[p].op # "deleteDocument" /\ ~res[p].skipped
                      /\ res[p].content # NoContent) =>
                      ChunksOf(res[p].id) # {})
    /\ [][\A p \in Procs :
            (pc[p] # "done" /\ pc'[p] = "done" /\ res'[p].ok
                /\ req[p].op # "deleteDocument"
                /\ ChunksOf(res'[p].id) # {}) =>
            {r \in store' : r.documentId = res'[p].id} # {}]_vars

(* The steps of the Duplicate Detector (neighbour query, then filter and   *)
(* decision) and the step of addDocument's single-neighbour probe.         *)
DetectorSteps == {"dc_query", "dc_check"}

ProbeSteps == {"add_probe"}

(* C23: within one addDocumentWithDuplicateCheck request the probe of      *)
(* addDocument runs before the Duplicate Detector: the detector is entered *)
(* only from the probe, and the probe is never entered from the detector.  *)
C23_ProbeRunsBeforeDetector ==
    [][\A p \in Procs :
          /\ (pc[p] \notin DetectorSteps /\ pc'[p] \in DetectorSteps) =>
                pc[p] \in ProbeSteps
          /\ pc[p] \in DetectorSteps => pc'[p] \notin ProbeSteps]_vars

(* The text of the longest chunk stored under a document id.               *)
LongestText(id) ==
    CHOOSE t \in {r.text : r \in ChunksOf(id)} :
        \A r \in ChunksOf(id) : TextLen(t) >= TextLen(r.text)

(* C24: the content of every listed Document is the text of the longest    *)
(* chunk stored under its id, in whatever order the backend returns the    *)
(* chunk records, on LibSQL and on Qdrant.                                 *)
C24_ContentIsLongestChunk ==
    \A l \in {listing, lastListing} :
        l.state = "done" =>
            \A k \in 1..Len(l.documents) :
                l.documents[k].content = LongestText(l.documents[k].id)

(* The chunks stored under a document id carry pairwise distinct           *)
(* chunkIndex values that form 0..n-1.                                     *)
DenseChunkIndexes(id) ==
    LET idxs == {r.chunkIndex : r \in ChunksOf(id)}
    IN /\ Cardinality(idxs) = Cardinality(ChunksOf(id))
       /\ idxs = 0..(Cardinality(idxs) - 1)

(* C25: once an add, update or delete has returned without error, the      *)
(* chunks stored under the document id it worked on have pairwise distinct *)
(* chunkIndex values forming 0..n-1.                                       *)
C25_ChunkIndexesAreDense ==
    \A p \in Procs :
        (Done(p) /\ res[p].ok /\ ~res[p].skipped) =>
            DenseChunkIndexes(IF req[p].op = "deleteDocument"
                              THEN req[p].documentId ELSE res[p].id)

C28_AddedTouchesNoExistingChunk ==
    [][\A p \in Procs :
          (req[p].op = "addDocumentWithDuplicateCheck"
              /\ ~Startable(p) /\ res[p].action # "updated") =>
          /\ store \subseteq store'
          /\ (pc'[p] = "done" /\ res'[p].ok /\ res'[p].action = "added") =>
                ChunksOf(res'[p].id) = {}]_vars

(* The document ids of the similarDocuments of the request's check.        *)
SimilarIds(p) ==
    {res[p].similar[k].documentId : k \in 1..Len(res[p].similar)}

(* C29: a request on the path of an 'update' decision runs updateDocument, *)
(* and returns its Document, only on the documentId of one of the          *)
(* similarDocuments its duplicate check found.                             *)
C29_UpdateTargetIsASimilarDocument ==
    \A p \in Procs :
        (req[p].op = "addDocumentWithDuplicateCheck"
            /\ res[p].action = "updated") =>
        /\ ~Startable(p) => docId[p] \in SimilarIds(p)
        /\ (Done(p) /\ res[p].ok) => res[p].id \in SimilarIds(p)

(* C30: two addDocument calls with the same content that run concurrently  *)
(* and return without error, no failure having been swallowed, return one  *)
(* document id, and the chunks of the content are stored under that id     *)
(* alone.                                                                  *)
C30_ConcurrentAddsYieldOneDocument ==
    \A p, q \in Procs :
        (/\ p # q /\ overlap
         /\ Done(p) /\ Done(q) /\ res[p].ok /\ res[q].ok
         /\ req[p].op = "addDocument" /\ req[q].op = "addDocument"
         /\ req[p].content = req[q].content
         /\ swallowed[p] = "none" /\ swallowed[q] = "none")
        => /\ res[p].id = res[q].id
           /\ {r.documentId : r \in {x \in store :
                   x.text \in Range(ChunkTexts(req[p].content))}}
                = {res[p].id}

====
